---- MODULE Spec2Model ----
(***************************************************************************)
(* A model of the mDNS query client of src/client.go: construction of the  *)
(* Client (newClient, SetInterface), its reader tasks (recv), Close, the   *)
(* query dispatch (QueryContext, query, sendQuery) and the response        *)
(* correlator (the select loop of query, ensureName, alias).               *)
(***************************************************************************)
EXTENDS Integers, Sequences, FiniteSets, TLC

\* The four sockets of a Client: ipv4UnicastConn, ipv6UnicastConn,
\* ipv4MulticastConn, ipv6MulticastConn.
Socks == {"u4", "u6", "m4", "m6"}

\* The sockets newClient hands to a reader task (go c.recv(...)).
Readers == {"u4", "m4"}

Nil == "nil"

VARIABLES
  args,        \* the arguments and environment of newClient
  newErr,      \* "pending" before newClient returns, then "nil" or the error
  c,           \* the Client newClient returned (built), or NoClient
  rpc,         \* position of each reader task
  rres,        \* what a reader's last ReadFromUDP returned
  net,         \* the datagrams the network may deliver to a socket
  budget,      \* how many more datagrams the network delivers
  kpc,         \* position of each caller of Close
  kcas,        \* what CompareAndSwapInt32 returned to each caller of Close
  kret,        \* what Close returned to each caller
  closes,      \* per socket, the number of Close() calls made on it
  chCloses,    \* the number of close(c.closedCh) calls made
  input,       \* the query configurations as the caller passed them
  params,      \* *params, the slice QueryContext and query read
  ctxDone,     \* the context given to QueryContext is cancelled
  cancelEarly, \* the context was cancelled before the deadline fired
  qpc,         \* position of the query call
  qi,          \* index of the query configuration being dispatched
  m,           \* the question being dispatched
  wrote,       \* the queries written, in order: socket and question
  qret,        \* what the query call returned
  finish,      \* the deadline timer: "unarmed", "armed" or "fired"
  resp,        \* the message the correlator is processing
  ri,          \* index of the next record of resp
  inp,         \* the entry the last record touched (0: nil)
  inprogress,  \* the in-progress table: name -> entry
  heap,        \* the ServiceEntry objects allocated, by address
  respChan,    \* the entries the consumer received, in order
  offers,      \* the entries the correlator marked sent and tried to emit
  consumerReady, \* the consumer is ready to receive from respChan
  consumed,    \* the number of messages the correlator took from MsgChan
  sentNames,   \* the names that resolved to a sent entry before this message
  seen         \* the records the correlator processed, in order

ctorVars == <<args, newErr, c, rpc, rres>>
envVars == <<net, budget>>
closeVars == <<kpc, kcas, kret, closes, chCloses>>
paramVars == <<input, params>>
ctxVars == <<ctxDone, cancelEarly>>
dispVars == <<qi, m, wrote>>
msgVars == <<resp, ri, consumed, sentNames>>
tableVars == <<inp, inprogress, heap, seen>>
outVars == <<respChan, offers>>
queryVars ==
  <<paramVars, ctxVars, qpc, dispVars, qret, finish, msgVars, tableVars,
    outVars, consumerReady>>

-----------------------------------------------------------------------------
(* newClient *)

\* The environment of one construction: the enable flags, the sockets the OS
\* lets us bind, and the sockets on which SetMulticastInterface succeeds.
NewClientArgs ==
  [v4 : BOOLEAN, v6 : BOOLEAN, bindOK : SUBSET Socks, ifaceOK : SUBSET Socks]

\* net.ListenUDP / net.ListenMulticastUDP: a socket, or nil on failure.
Listen(enabled, s, bindOK) == IF enabled /\ s \in bindOK THEN "open" ELSE Nil

\* p.SetMulticastInterface(iface) on a packet conn wrapping socket s: an invalid
\* (nil) conn is an error, otherwise the OS decides.
SetMulticastInterfaceOK(conn, s, ifaceOK) == conn[s] # Nil /\ s \in ifaceOK

\* A SetInterface that configures the IPv4 sockets only.
SetInterfaceV4Only(use_ipv4, use_ipv6, conn, ifaceOK) ==
  IF use_ipv4 /\ ~SetMulticastInterfaceOK(conn, "u4", ifaceOK) THEN "iface u4"
  ELSE IF use_ipv4 /\ ~SetMulticastInterfaceOK(conn, "m4", ifaceOK) THEN "iface m4"
  ELSE Nil

\* Client.SetInterface: the error it returns, or Nil.
SetInterface(use_ipv4, use_ipv6, conn, ifaceOK) ==
  IF use_ipv4 /\ ~SetMulticastInterfaceOK(conn, "u4", ifaceOK) THEN "iface u4"
  ELSE IF use_ipv4 /\ ~SetMulticastInterfaceOK(conn, "m4", ifaceOK) THEN "iface m4"
  ELSE IF use_ipv6 /\ ~SetMulticastInterfaceOK(conn, "u6", ifaceOK) THEN "iface u6"
  ELSE IF use_ipv6 /\ ~SetMulticastInterfaceOK(conn, "m6", ifaceOK) THEN "iface m6"
  ELSE Nil

\* The Client literal of newClient (closed is the zero value, closedCh and
\* MsgChan are freshly made).
MkClient(v4, v6, conn) ==
  [built |-> TRUE, use_ipv4 |-> v4, use_ipv6 |-> v6, conn |-> conn,
   closed |-> 0, closedCh |-> "open", MsgChan |-> <<>>]

\* The nil *Client that newClient returns with its early errors.
NoClient ==
  [built |-> FALSE, use_ipv4 |-> FALSE, use_ipv6 |-> FALSE,
   conn |-> [s \in Socks |-> Nil],
   closed |-> 0, closedCh |-> "open", MsgChan |-> <<>>]

\* The protocol check of newClient: the sockets and flags after it.
DisableUnusable(v4, v6, conn) ==
  IF conn["u4"] = Nil \/ conn["m4"] = Nil
  THEN [v4 |-> FALSE, v6 |-> v6,
        conn |-> [conn EXCEPT !["u4"] = Nil, !["m4"] = Nil]]
  ELSE [v4 |-> v4, v6 |-> v6, conn |-> conn]

\* newClient: what it returns (c, err) and whether it started the reader tasks.
newClient(a) ==
  LET bound == [s \in Socks |->
                  Listen(IF s \in {"u4", "m4"} THEN a.v4 ELSE a.v6, s, a.bindOK)]
      d     == DisableUnusable(a.v4, a.v6, bound)
      cl    == MkClient(d.v4, d.v6, d.conn)
      ierr  == SetInterface(d.v4, d.v6, d.conn, a.ifaceOK)
  IN  IF ~a.v4 /\ ~a.v6
        THEN [c |-> NoClient, err |-> "none enabled", readers |-> FALSE]
      ELSE IF bound["u4"] = Nil /\ bound["u6"] = Nil
        THEN [c |-> NoClient, err |-> "no unicast", readers |-> FALSE]
      ELSE IF bound["m4"] = Nil /\ bound["m6"] = Nil
        THEN [c |-> NoClient, err |-> "no multicast", readers |-> FALSE]
      ELSE IF ~d.v4 /\ ~d.v6
        THEN [c |-> NoClient, err |-> "none usable", readers |-> FALSE]
      ELSE IF ierr # Nil
        THEN [c |-> cl, err |-> ierr, readers |-> FALSE]
      ELSE [c |-> cl, err |-> Nil, readers |-> TRUE]

NoRes == [kind |-> "none"]

\* NewClient(v4, v6, logger, inter): one call.
NewClient ==
  /\ newErr = "pending"
  /\ LET r == newClient(args)
     IN  /\ c' = r.c
         /\ newErr' = r.err
         /\ rpc' = [s \in Readers |-> IF r.readers THEN "start" ELSE "none"]
  /\ UNCHANGED <<args, rres, envVars, closeVars, queryVars>>

-----------------------------------------------------------------------------
(* recv: one reader task per socket in Readers *)

\* Capacity of c.MsgChan.
MsgChanCap == 32

\* if l == nil { return }
RecvStart(r) ==
  /\ rpc[r] = "start"
  /\ rpc' = [rpc EXCEPT ![r] = IF c.conn[r] = Nil THEN "done" ELSE "loop"]
  /\ UNCHANGED <<args, newErr, c, rres, envVars, closeVars, queryVars>>

\* for atomic.LoadInt32(&c.closed) == 0
RecvLoop(r) ==
  /\ rpc[r] = "loop"
  /\ rpc' = [rpc EXCEPT ![r] = IF c.closed = 0 THEN "read" ELSE "done"]
  /\ UNCHANGED <<args, newErr, c, rres, envVars, closeVars, queryVars>>

\* l.ReadFromUDP(buf): an error at once on a closed socket, otherwise it blocks
\* until the network delivers a datagram (or the OS reports an error).
RecvRead(r) ==
  /\ rpc[r] = "read"
  /\ IF c.conn[r] = "closed"
     THEN /\ rres' = [rres EXCEPT ![r] = [kind |-> "err"]]
          /\ UNCHANGED budget
     ELSE /\ budget > 0
          /\ budget' = budget - 1
          /\ \E d \in net : rres' = [rres EXCEPT ![r] = d]
  /\ rpc' = [rpc EXCEPT ![r] = "check"]
  /\ UNCHANGED <<args, newErr, c, net, closeVars, queryVars>>

\* A check after the read that does not look at the closed flag.
RecvCheckUnflagged(r) ==
  /\ rpc[r] = "check"
  /\ rpc' = [rpc EXCEPT ![r] = IF rres[r].kind # "ok" THEN "loop" ELSE "push"]
  /\ UNCHANGED <<args, newErr, c, rres, envVars, closeVars, queryVars>>

\* The closed check after the read, the error check and msg.Unpack.
RecvCheck(r) ==
  /\ rpc[r] = "check"
  /\ rpc' = [rpc EXCEPT ![r] =
               IF c.closed = 1 THEN "done"
               ELSE IF rres[r].kind # "ok" THEN "loop"
               ELSE "push"]
  /\ UNCHANGED <<args, newErr, c, rres, envVars, closeVars, queryVars>>

\* select { case msgCh <- &msgAddr{msg, addr}: ... }
RecvPush(r) ==
  /\ rpc[r] = "push"
  /\ Len(c.MsgChan) < MsgChanCap
  /\ c' = [c EXCEPT !.MsgChan = Append(@, rres[r].msg)]
  /\ rpc' = [rpc EXCEPT ![r] = "loop"]
  /\ UNCHANGED <<args, newErr, rres, envVars, closeVars, queryVars>>

\* A push that does not watch the shutdown signal.
RecvShutdownNever(r) ==
  /\ rpc[r] = "push"
  /\ FALSE
  /\ UNCHANGED <<args, newErr, c, rpc, rres, envVars, closeVars, queryVars>>

\* select { ... case <-c.closedCh: return }
RecvShutdown(r) ==
  /\ rpc[r] = "push"
  /\ c.closedCh = "closed"
  /\ rpc' = [rpc EXCEPT ![r] = "done"]
  /\ UNCHANGED <<args, newErr, c, rres, envVars, closeVars, queryVars>>

-----------------------------------------------------------------------------
(* Close *)

\* The number of concurrent callers of Close.
NumClosers == 2
Closers == 1..NumClosers

\* The order in which Close closes the sockets: the stage after stage s.
CloseOrder(s) ==
  CASE s = "u4" -> "u6"
    [] s = "u6" -> "m4"
    [] s = "m4" -> "m6"
    [] s = "m6" -> "done"

\* A caller enters Close.
CloseCall(k) ==
  /\ kpc[k] = "idle"
  /\ c.built
  /\ kpc' = [kpc EXCEPT ![k] = "cas"]
  /\ UNCHANGED <<ctorVars, envVars, kcas, kret, closes, chCloses, queryVars>>

\* A Close that stores the flag without looking at it.
CloseStore(k) ==
  /\ kpc[k] = "cas"
  /\ c' = [c EXCEPT !.closed = 1]
  /\ kcas' = [kcas EXCEPT ![k] = TRUE]
  /\ kpc' = [kpc EXCEPT ![k] = "closeCh"]
  /\ UNCHANGED <<args, newErr, rpc, rres, envVars, kret, closes, chCloses, queryVars>>

\* if !atomic.CompareAndSwapInt32(&c.closed, 0, 1) { return nil }
CloseCAS(k) ==
  /\ kpc[k] = "cas"
  /\ kcas' = [kcas EXCEPT ![k] = (c.closed = 0)]
  /\ c' = [c EXCEPT !.closed = 1]
  /\ kpc' = [kpc EXCEPT ![k] = IF c.closed = 0 THEN "closeCh" ELSE "done"]
  /\ kret' = [kret EXCEPT ![k] = IF c.closed = 0 THEN @ ELSE Nil]
  /\ UNCHANGED <<args, newErr, rpc, rres, envVars, closes, chCloses, queryVars>>

\* close(c.closedCh)
CloseClosedCh(k) ==
  /\ kpc[k] = "closeCh"
  /\ c' = [c EXCEPT !.closedCh = "closed"]
  /\ chCloses' = chCloses + 1
  /\ kpc' = [kpc EXCEPT ![k] = "u4"]
  /\ UNCHANGED <<args, newErr, rpc, rres, envVars, kcas, kret, closes, queryVars>>

\* if c.<sock> != nil { c.<sock>.Close() }, for the next socket of CloseOrder;
\* return nil after the last.
CloseSock(k) ==
  /\ kpc[k] \in Socks
  /\ LET s == kpc[k]
     IN  IF c.conn[s] # Nil
         THEN /\ c' = [c EXCEPT !.conn[s] = "closed"]
              /\ closes' = [closes EXCEPT ![s] = @ + 1]
         ELSE UNCHANGED <<c, closes>>
  /\ kpc' = [kpc EXCEPT ![k] = CloseOrder(@)]
  /\ kret' = [kret EXCEPT ![k] = IF CloseOrder(kpc[k]) = "done" THEN Nil ELSE @]
  /\ UNCHANGED <<args, newErr, rpc, rres, envVars, kcas, chCloses, queryVars>>

-----------------------------------------------------------------------------
(* QueryContext and the dispatch of query *)

\* A string of the query configuration is a sequence of tokens, "." a token of
\* its own: "local." is <<"local", ".">>.
RECURSIVE TrimLeft(_)
TrimLeft(str) ==
  IF str # <<>> /\ Head(str) = "." THEN TrimLeft(Tail(str)) ELSE str

RECURSIVE TrimRight(_)
TrimRight(str) ==
  IF str # <<>> /\ str[Len(str)] = "."
  THEN TrimRight(SubSeq(str, 1, Len(str) - 1))
  ELSE str

\* trimDot(s): s without its leading and trailing dots.
trimDot(str) == TrimRight(TrimLeft(str))

\* fmt.Sprintf("%s.%s.", trimDot(par.Service), trimDot(par.Domain))
serviceAddr(par) ==
  trimDot(par.Service) \o <<".">> \o trimDot(par.Domain) \o <<".">>

\* The class of a question: IN, with the top bit set when a unicast response
\* is wanted.
ClassINET == 1
UnicastBit == 32768

\* The message query builds for one query configuration.
Question(par) ==
  [Name |-> serviceAddr(par), Qtype |-> "PTR",
   Qclass |-> IF par.WantUnicastResponse THEN ClassINET + UnicastBit
              ELSE ClassINET,
   RecursionDesired |-> FALSE]

NoQuestion ==
  [Name |-> <<>>, Qtype |-> "", Qclass |-> 0, RecursionDesired |-> FALSE]

\* The body of the defaults loop of QueryContext, on its loop variable.
WithDefaults(par) ==
  LET p1 == IF par.Domain = <<>> THEN [par EXCEPT !.Domain = <<"local">>]
            ELSE par
  IN  IF p1.Timeout = 0 THEN [p1 EXCEPT !.Timeout = 1] ELSE p1

\* A defaults loop that assigns to the elements of the slice.
DefaultsInPlace(ps) == [i \in 1..Len(ps) |-> WithDefaults(ps[i])]

\* for _, par := range *params { ... }: par is a copy of the element, and the
\* slice is left as it was.
DefaultsLoop(ps) ==
  [i \in 1..Len(ps) |-> LET par == WithDefaults(ps[i]) IN ps[i]]

\* QueryContext up to the call of query.
QueryContext ==
  /\ qpc = "defaults"
  /\ params' = DefaultsLoop(params)
  /\ qi' = 1
  /\ qpc' = "build"
  /\ UNCHANGED <<ctorVars, envVars, closeVars, input, ctxVars, m, wrote, qret,
                 finish, msgVars, tableVars, outVars, consumerReady>>

\* The context is cancelled while the call runs, before the deadline.
CtxCancel ==
  /\ ~ctxDone
  /\ qpc # "done"
  /\ ctxDone' = TRUE
  /\ finish # "fired"
  /\ cancelEarly' = TRUE
  /\ UNCHANGED <<ctorVars, envVars, closeVars, paramVars, qpc, dispVars, qret,
                 finish, msgVars, tableVars, outVars, consumerReady>>

\* One turn of the dispatch loop up to q.Pack() in sendQuery; after the last
\* query configuration, the table is made and the deadline timer armed.
QBuild ==
  /\ qpc = "build"
  /\ IF qi > Len(params)
     THEN /\ finish' = "armed"
          /\ qpc' = "select"
          /\ UNCHANGED <<m, qret>>
     ELSE /\ m' = Question(params[qi])
          /\ \E packed \in BOOLEAN :
               /\ qpc' = IF packed THEN "u4" ELSE "done"
               /\ qret' = IF packed THEN qret ELSE "pack error"
          /\ UNCHANGED finish
  /\ UNCHANGED <<ctorVars, envVars, closeVars, paramVars, ctxVars, qi, wrote,
                 msgVars, tableVars, outVars, consumerReady>>

\* A sendQuery that only logs a failed write and goes on to the next socket.
QWriteLogged ==
  /\ qpc \in {"u4", "u6"}
  /\ \E ok \in BOOLEAN :
       /\ ok => c.conn[qpc] # "closed"
       /\ ~ok => c.conn[qpc] # Nil
       /\ wrote' = IF ok /\ c.conn[qpc] = "open"
                   THEN Append(wrote, [sock |-> qpc, q |-> m])
                   ELSE wrote
       /\ qpc' = IF qpc = "u4" THEN "u6" ELSE "build"
       /\ qi' = IF qpc = "u6" THEN qi + 1 ELSE qi
       /\ qret' = qret
  /\ UNCHANGED <<ctorVars, envVars, closeVars, paramVars, ctxVars, m, finish,
                 msgVars, tableVars, outVars, consumerReady>>

\* sendQuery: the write to the next unicast socket, if it is not nil. A write
\* to a closed socket fails; otherwise the OS decides.
QWrite ==
  /\ qpc \in {"u4", "u6"}
  /\ \E ok \in BOOLEAN :
       /\ ok => c.conn[qpc] # "closed"
       /\ ~ok => c.conn[qpc] # Nil
       /\ wrote' = IF ok /\ c.conn[qpc] = "open"
                   THEN Append(wrote, [sock |-> qpc, q |-> m])
                   ELSE wrote
       /\ qpc' = IF ~ok THEN "done" ELSE IF qpc = "u4" THEN "u6" ELSE "build"
       /\ qi' = IF ok /\ qpc = "u6" THEN qi + 1 ELSE qi
       /\ qret' = IF ok THEN qret ELSE "write error"
  /\ UNCHANGED <<ctorVars, envVars, closeVars, paramVars, ctxVars, m, finish,
                 msgVars, tableVars, outVars, consumerReady>>

\* The timer of time.After fires.
TimerFire ==
  /\ finish = "armed"
  /\ finish' = "fired"
  /\ UNCHANGED <<ctorVars, envVars, closeVars, paramVars, ctxVars, qpc,
                 dispVars, qret, msgVars, tableVars, outVars, consumerReady>>

\* The consumer of respChan becomes ready to receive, or stops being ready.
ConsumerToggle ==
  /\ consumerReady' = ~consumerReady
  /\ qpc # "done"
  /\ UNCHANGED <<ctorVars, envVars, closeVars, paramVars, ctxVars, qpc,
                 dispVars, qret, finish, msgVars, tableVars, outVars>>

-----------------------------------------------------------------------------
(* The response correlator: the select loop of query *)

\* A nil net.IP (an IP is a sequence of bytes).
NoIP == <<>>

\* A nil *net.IPAddr.
NoIPAddr == [IP |-> NoIP, Zone |-> "", isNil |-> TRUE]

\* &ServiceEntry{Name: name}
NewEntry(name) ==
  [Name |-> name, Host |-> "", AddrV4 |-> NoIP, AddrV6 |-> NoIP,
   AddrV6IPAddr |-> NoIPAddr, Port |-> 0, Info |-> "", InfoFields |-> <<>>,
   SrcIP |-> NoIP, Addr |-> NoIP, hasTXT |-> FALSE, sent |-> FALSE]

\* The completeness check that complete() keeps as a comment.
completeStrict(e) ==
  (e.AddrV4 # NoIP \/ e.AddrV6 # NoIP \/ e.Addr # NoIP) /\ e.Port # 0 /\ e.hasTXT

\* ServiceEntry.complete
complete(e) == TRUE

\* net.IP.IsLinkLocalUnicast, on an IPv6 address: fe80::/10.
IsLinkLocalUnicast(ip) == ip[1] = 254 /\ (ip[2] \div 64) * 64 = 128

\* net.IP.IsLinkLocalMulticast, on an IPv6 address: ff02::/16 scope.
IsLinkLocalMulticast(ip) == ip[1] = 255 /\ ip[2] % 16 = 2

\* strings.Join(txt, sep)
RECURSIVE Join(_, _)
Join(txt, sep) ==
  IF txt = <<>> THEN ""
  ELSE IF Len(txt) = 1 THEN txt[1]
  ELSE txt[1] \o sep \o Join(Tail(txt), sep)

\* The table and the objects, t = [inprogress, heap, inp].
\* An ensureName that allocates a new entry on every call.
ensureNameAlways(t, name) ==
  [inprogress |-> [n \in DOMAIN t.inprogress \cup {name} |->
                     IF n = name THEN Len(t.heap) + 1 ELSE t.inprogress[n]],
   heap |-> Append(t.heap, NewEntry(name)),
   inp |-> Len(t.heap) + 1]

\* ensureName(inprogress, name): the entry is t.inp of the result.
ensureName(t, name) ==
  IF name \in DOMAIN t.inprogress
  THEN [t EXCEPT !.inp = t.inprogress[name]]
  ELSE [inprogress |-> [n \in DOMAIN t.inprogress \cup {name} |->
                          IF n = name THEN Len(t.heap) + 1 ELSE t.inprogress[n]],
        heap |-> Append(t.heap, NewEntry(name)),
        inp |-> Len(t.heap) + 1]

\* An alias that leaves the table as it was.
aliasNothing(t, src, dst) == t

\* alias(inprogress, src, dst); t.inp is left as it was.
alias(t, src, dst) ==
  LET e == ensureName(t, src)
  IN  [inprogress |-> [n \in DOMAIN e.inprogress \cup {dst} |->
                         IF n = dst THEN e.inp ELSE e.inprogress[n]],
       heap |-> e.heap,
       inp |-> t.inp]

\* A switch whose IPv6 case updates the address of the entry in place and so
\* keeps the zone an earlier record set.
ApplyRecordKeepZone(t, rr, src) ==
  CASE rr.type = "PTR" ->
         ensureName(t, rr.Ptr)
    [] rr.type = "SRV" ->
         LET a == IF rr.Target # rr.Name THEN alias(t, rr.Name, rr.Target) ELSE t
             e == ensureName(a, rr.Name)
         IN  [e EXCEPT !.heap[e.inp].Host = rr.Target,
                       !.heap[e.inp].Port = rr.Port]
    [] rr.type = "TXT" ->
         LET e == ensureName(t, rr.Name)
         IN  [e EXCEPT !.heap[e.inp].Info = Join(rr.Txt, "|"),
                       !.heap[e.inp].InfoFields = rr.Txt,
                       !.heap[e.inp].hasTXT = TRUE]
    [] rr.type = "A" ->
         LET e == ensureName(t, rr.Name)
         IN  [e EXCEPT !.heap[e.inp].Addr = rr.A,
                       !.heap[e.inp].AddrV4 = rr.A]
    [] rr.type = "AAAA" ->
         LET e == ensureName(t, rr.Name)
         IN  [e EXCEPT !.heap[e.inp].Addr = rr.AAAA,
                       !.heap[e.inp].AddrV6 = rr.AAAA,
                       !.heap[e.inp].AddrV6IPAddr =
                          [IP |-> rr.AAAA,
                           Zone |-> IF IsLinkLocalUnicast(rr.AAAA)
                                       \/ IsLinkLocalMulticast(rr.AAAA)
                                    THEN src.Zone ELSE @.Zone,
                           isNil |-> FALSE]]
    [] OTHER -> t

\* One turn of the loop over the records of a message: the switch on the type
\* of the record rr, of a message that came from src.
ApplyRecord(t, rr, src) ==
  CASE rr.type = "PTR" ->
         ensureName(t, rr.Ptr)
    [] rr.type = "SRV" ->
         LET a == IF rr.Target # rr.Name THEN alias(t, rr.Name, rr.Target) ELSE t
             e == ensureName(a, rr.Name)
         IN  [e EXCEPT !.heap[e.inp].Host = rr.Target,
                       !.heap[e.inp].Port = rr.Port]
    [] rr.type = "TXT" ->
         LET e == ensureName(t, rr.Name)
         IN  [e EXCEPT !.heap[e.inp].Info = Join(rr.Txt, "|"),
                       !.heap[e.inp].InfoFields = rr.Txt,
                       !.heap[e.inp].hasTXT = TRUE]
    [] rr.type = "A" ->
         LET e == ensureName(t, rr.Name)
         IN  [e EXCEPT !.heap[e.inp].Addr = rr.A,
                       !.heap[e.inp].AddrV4 = rr.A]
    [] rr.type = "AAAA" ->
         LET e == ensureName(t, rr.Name)
         IN  [e EXCEPT !.heap[e.inp].Addr = rr.AAAA,
                       !.heap[e.inp].AddrV6 = rr.AAAA,
                       !.heap[e.inp].AddrV6IPAddr =
                          [IP |-> rr.AAAA,
                           Zone |-> IF IsLinkLocalUnicast(rr.AAAA)
                                       \/ IsLinkLocalMulticast(rr.AAAA)
                                    THEN src.Zone ELSE "",
                           isNil |-> FALSE]]
    [] OTHER -> t

\* append(resp.msg.Answer, resp.msg.Extra...)
Records(msg) == msg.Answer \o msg.Extra

NoMsg == [Answer |-> <<>>, Extra |-> <<>>, src |-> [IP |-> NoIP, Zone |-> ""]]

\* case resp := <-c.MsgChan
QReceive ==
  /\ qpc = "select"
  /\ c.MsgChan # <<>>
  /\ resp' = Head(c.MsgChan)
  /\ c' = [c EXCEPT !.MsgChan = Tail(@)]
  /\ ri' = 1
  /\ consumed' = consumed + 1
  /\ sentNames' = {n \in DOMAIN inprogress : heap[inprogress[n]].sent}
  /\ inp' = 0
  /\ qpc' = "records"
  /\ UNCHANGED <<args, newErr, rpc, rres, envVars, closeVars, paramVars,
                 ctxVars, dispVars, qret, finish, inprogress, heap, seen,
                 outVars, consumerReady>>

\* A deadline case that closes the Client before it returns.
QFinishClosing ==
  /\ qpc = "select"
  /\ finish = "fired"
  /\ qpc' = "done"
  /\ qret' = Nil
  /\ c' = [c EXCEPT !.closed = 1, !.closedCh = "closed",
                    !.conn = [s \in Socks |->
                                IF c.conn[s] = Nil THEN Nil ELSE "closed"]]
  /\ closes' = [s \in Socks |->
                  IF c.conn[s] = Nil THEN closes[s] ELSE closes[s] + 1]
  /\ chCloses' = chCloses + 1
  /\ UNCHANGED <<args, newErr, rpc, rres, envVars, kpc, kcas, kret, paramVars,
                 ctxVars, dispVars, finish, msgVars, tableVars, outVars,
                 consumerReady>>

\* case <-finish: return nil
QFinish ==
  /\ qpc = "select"
  /\ finish = "fired"
  /\ qpc' = "done"
  /\ qret' = Nil
  /\ UNCHANGED <<ctorVars, envVars, closeVars, paramVars, ctxVars, dispVars,
                 finish, msgVars, tableVars, outVars, consumerReady>>

\* The next record of the message, or the end of the loop over its records.
QRecord ==
  /\ qpc = "records"
  /\ IF ri > Len(Records(resp))
     THEN /\ qpc' = "post"
          /\ UNCHANGED <<ri, tableVars>>
     ELSE /\ LET t == ApplyRecord([inprogress |-> inprogress, heap |-> heap,
                                   inp |-> inp],
                                  Records(resp)[ri], resp.src)
             IN  /\ inprogress' = t.inprogress
                 /\ heap' = t.heap
                 /\ inp' = t.inp
          /\ seen' = Append(seen, Records(resp)[ri])
          /\ ri' = ri + 1
          /\ UNCHANGED qpc
  /\ UNCHANGED <<ctorVars, envVars, closeVars, paramVars, ctxVars, dispVars,
                 qret, finish, resp, consumed, sentNames, outVars,
                 consumerReady>>

\* The writes of a sendQuery whose errors are only logged.
FollowUp(name) ==
  LET q == [Name |-> <<name>>, Qtype |-> "PTR", Qclass |-> ClassINET,
            RecursionDesired |-> FALSE]
      w4 == IF c.conn["u4"] = "open" THEN <<[sock |-> "u4", q |-> q]>> ELSE <<>>
      w6 == IF c.conn["u6"] = "open" THEN <<[sock |-> "u6", q |-> q]>> ELSE <<>>
  IN  w4 \o w6

\* A completeness step that emits the entry without marking it sent.
QPostUnmarked ==
  /\ qpc = "post"
  /\ IF inp = 0
     THEN /\ qpc' = "select"
          /\ UNCHANGED <<heap, offers>>
     ELSE /\ heap' = [heap EXCEPT ![inp].SrcIP = resp.src.IP]
          /\ offers' = Append(offers, inp)
          /\ qpc' = "emit"
  /\ UNCHANGED <<ctorVars, envVars, closeVars, paramVars, ctxVars, dispVars,
                 qret, finish, msgVars, inp, inprogress, seen, respChan,
                 consumerReady>>

\* After the records of a message: the nil check, the source IP, the
\* completeness check and the sent flag.
QPost ==
  /\ qpc = "post"
  /\ IF inp = 0
     THEN /\ qpc' = "select"
          /\ UNCHANGED <<heap, offers, wrote>>
     ELSE LET e == [heap[inp] EXCEPT !.SrcIP = resp.src.IP]
          IN  IF complete(e)
              THEN IF e.sent
                   THEN /\ heap' = [heap EXCEPT ![inp] = e]
                        /\ qpc' = "select"
                        /\ UNCHANGED <<offers, wrote>>
                   ELSE /\ heap' = [heap EXCEPT ![inp] = [e EXCEPT !.sent = TRUE]]
                        /\ offers' = Append(offers, inp)
                        /\ qpc' = "emit"
                        /\ UNCHANGED wrote
              ELSE /\ heap' = [heap EXCEPT ![inp] = e]
                   /\ wrote' = wrote \o FollowUp(e.Name)
                   /\ qpc' = "select"
                   /\ UNCHANGED offers
  /\ UNCHANGED <<ctorVars, envVars, closeVars, paramVars, ctxVars, qi, m, qret,
                 finish, msgVars, inp, inprogress, seen, respChan,
                 consumerReady>>

\* A send that waits for the consumer.
QEmitBlocking ==
  /\ qpc = "emit"
  /\ consumerReady
  /\ respChan' = Append(respChan, inp)
  /\ qpc' = "select"
  /\ UNCHANGED <<ctorVars, envVars, closeVars, paramVars, ctxVars, dispVars,
                 qret, finish, msgVars, tableVars, offers, consumerReady>>

\* A send that takes the sent mark back when the consumer is not ready.
QEmitOrUnmark ==
  /\ qpc = "emit"
  /\ respChan' = IF consumerReady THEN Append(respChan, inp) ELSE respChan
  /\ heap' = [heap EXCEPT ![inp].sent = consumerReady]
  /\ qpc' = "select"
  /\ UNCHANGED <<ctorVars, envVars, closeVars, paramVars, ctxVars, dispVars,
                 qret, finish, msgVars, inp, inprogress, seen, offers,
                 consumerReady>>

\* select { case respChan <- inp: default: }
QEmit ==
  /\ qpc = "emit"
  /\ respChan' = IF consumerReady THEN Append(respChan, inp) ELSE respChan
  /\ qpc' = "select"
  /\ UNCHANGED <<ctorVars, envVars, closeVars, paramVars, ctxVars, dispVars,
                 qret, finish, msgVars, tableVars, offers, consumerReady>>

-----------------------------------------------------------------------------
(* Specifications *)

vars == <<ctorVars, envVars, closeVars, queryVars>>

\* No caller of Close yet.
InitClose ==
  /\ kpc = [k \in Closers |-> "idle"]
  /\ kcas = [k \in Closers |-> FALSE]
  /\ kret = [k \in Closers |-> "none"]
  /\ closes = [s \in Socks |-> 0]
  /\ chCloses = 0

\* A call of QueryContext with the configurations ps is about to start.
InitQuery(ps) ==
  /\ consumerReady \in BOOLEAN
  /\ qpc = "defaults"
  /\ input = ps
  /\ params = ps
  /\ ctxDone = FALSE
  /\ cancelEarly = FALSE
  /\ qi = 0
  /\ m = NoQuestion
  /\ wrote = <<>>
  /\ qret = "none"
  /\ finish = "unarmed"
  /\ resp = NoMsg
  /\ ri = 0
  /\ consumed = 0
  /\ sentNames = {}
  /\ seen = <<>>
  /\ inp = 0
  /\ inprogress = <<>>
  /\ heap = <<>>
  /\ respChan = <<>>
  /\ offers = <<>>

\* No query is called.
InitNoQuery ==
  /\ consumerReady = FALSE
  /\ qpc = "idle"
  /\ input = <<>>
  /\ params = <<>>
  /\ ctxDone = FALSE
  /\ cancelEarly = FALSE
  /\ qi = 0
  /\ m = NoQuestion
  /\ wrote = <<>>
  /\ qret = "none"
  /\ finish = "unarmed"
  /\ resp = NoMsg
  /\ ri = 0
  /\ consumed = 0
  /\ sentNames = {}
  /\ seen = <<>>
  /\ inp = 0
  /\ inprogress = <<>>
  /\ heap = <<>>
  /\ respChan = <<>>
  /\ offers = <<>>

\* The state newClient leaves when it succeeds with arguments a.
InitClient(a) ==
  /\ args = a
  /\ newErr = Nil
  /\ c = newClient(a).c
  /\ rpc = [s \in Readers |-> "start"]
  /\ rres = [s \in Readers |-> NoRes]

\* The arguments with which newClient succeeds, the OS binding just the
\* sockets the Client keeps.
GoodArgs ==
  {a \in NewClientArgs :
     /\ a.ifaceOK = Socks
     /\ newClient(a).err = Nil
     /\ a.bindOK = {s \in Socks : newClient(a).c.conn[s] # Nil}
     /\ a.v4 = newClient(a).c.use_ipv4}

\* A query configuration with everything left to its zero value, and one with
\* everything set (and dots to trim).
ZeroParam ==
  [Service |-> <<"_http._tcp">>, Domain |-> <<>>, Timeout |-> 0,
   WantUnicastResponse |-> FALSE]
FullParam ==
  [Service |-> <<"_ipp._tcp", ".">>, Domain |-> <<"lan", ".">>, Timeout |-> 3,
   WantUnicastResponse |-> TRUE]

\* The longest list of query configurations a caller passes.
MaxParams == 2

\* The lists of query configurations: zero-valued and full ones in turn.
ParamLists ==
  {[i \in 1..n |-> IF i % 2 = 1 THEN ZeroParam ELSE FullParam] :
     n \in 1..MaxParams}

\* The datagrams of the lifecycle: a response with one pointer record, a
\* datagram that does not unpack, and a read error.
Src1 == [IP |-> <<10, 0, 0, 5>>, Zone |-> ""]
PtrMsg ==
  [Answer |-> <<[type |-> "PTR", Ptr |-> "node1._http._tcp.local."]>>,
   Extra |-> <<>>, src |-> Src1]
LifeNet ==
  {[kind |-> "ok", msg |-> PtrMsg], [kind |-> "malformed"], [kind |-> "err"]}

\* The number of datagrams the network delivers.
MaxDatagrams == 1

InitNew ==
  /\ args \in NewClientArgs
  /\ newErr = "pending"
  /\ c = NoClient
  /\ rpc = [s \in Readers |-> "none"]
  /\ rres = [s \in Readers |-> NoRes]
  /\ net = {}
  /\ budget = 0
  /\ InitClose
  /\ InitNoQuery

NextNew == NewClient

\* Construction alone, in every environment.
SpecNew == InitNew /\ [][NextNew]_vars

Init ==
  /\ \E a \in GoodArgs : InitClient(a)
  /\ net = LifeNet
  /\ budget = MaxDatagrams
  /\ InitClose
  /\ \E ps \in ParamLists : InitQuery(ps)

\* The reader tasks while nobody closes the Client.
Recv_Next ==
  \E r \in Readers :
    \/ RecvStart(r) \/ RecvLoop(r) \/ RecvRead(r) \/ RecvCheck(r)
    \/ RecvPush(r)

Dispatch_Next == QueryContext \/ QBuild \/ QWrite

Correlate_Next ==
  \/ TimerFire \/ ConsumerToggle \/ QReceive \/ QFinish \/ QRecord \/ QPost
  \/ QEmit

Next == Recv_Next \/ CtxCancel \/ Dispatch_Next \/ Correlate_Next

\* A Client after construction, its reader tasks and one call of QueryContext;
\* nobody calls Close.
Spec == Init /\ [][Next]_vars

\* A step of the query task other than taking the deadline.
QueryStep ==
  \/ QueryContext \/ QBuild \/ QWrite \/ QReceive \/ QRecord \/ QPost
  \/ QEmit

\* The query task runs: a step it can take is taken, and a select with the
\* deadline ready, however often a message is ready too, ends up taking the
\* deadline.
QueryFairness == WF_vars(QueryStep) /\ SF_vars(QFinish)

FairSpec == Spec /\ QueryFairness

InitClosing ==
  /\ \E a \in GoodArgs : InitClient(a)
  /\ net = LifeNet
  /\ budget = MaxDatagrams
  /\ InitClose
  /\ InitNoQuery

NextClose ==
  \/ \E r \in Readers :
       \/ RecvStart(r) \/ RecvLoop(r) \/ RecvRead(r) \/ RecvCheck(r)
       \/ RecvPush(r) \/ RecvShutdown(r)
  \/ \E k \in Closers :
       \/ CloseCall(k) \/ CloseCAS(k) \/ CloseClosedCh(k) \/ CloseSock(k)

\* A Client after construction, its reader tasks and the callers of Close.
SpecClose == InitClosing /\ [][NextClose]_vars

-----------------------------------------------------------------------------
(* The correlator on the responses of a network *)

InstName == "node1._http._tcp.local."
HostName == "node1.local."
OtherName == "node2._http._tcp.local."

\* A link-local IPv6 address (fe80::1), by its first two bytes and its last.
LinkLocal6 == <<254, 128, 1>>

\* The records of the responses: a pointer to the instance, its service
\* locator (whose target is the host), a service locator of another instance
\* whose target is the first, the text of the instance, and the addresses of
\* the host.
Recs ==
  {[type |-> "PTR", Ptr |-> InstName],
   [type |-> "SRV", Name |-> InstName, Target |-> HostName, Port |-> 8080],
   [type |-> "SRV", Name |-> OtherName, Target |-> InstName, Port |-> 9090],
   [type |-> "TXT", Name |-> InstName, Txt |-> <<"v=1", "p=2">>],
   [type |-> "A", Name |-> HostName, A |-> <<10, 0, 0, 5>>],
   [type |-> "AAAA", Name |-> HostName, AAAA |-> LinkLocal6]}

\* The most records the responses of one invocation carry, all in all.
MaxRecords == 3

RECURSIVE SeqsUpTo(_, _)
SeqsUpTo(S, n) ==
  IF n = 0 THEN {<<>>}
  ELSE LET shorter == SeqsUpTo(S, n - 1)
       IN  shorter \cup {Append(q, x) : q \in shorter, x \in S}

\* A response carrying the records rs: the first as its answer, the others as
\* additional records.
Response(rs) == [Answer |-> <<rs[1]>>, Extra |-> Tail(rs), src |-> Src1]

\* The ways the records rs come in, in this order, as one response or several.
RECURSIVE Responses(_)
Responses(rs) ==
  IF rs = <<>> THEN {<<>>}
  ELSE UNION {{<<Response(SubSeq(rs, 1, k))>> \o q :
                 q \in Responses(SubSeq(rs, k + 1, Len(rs)))} :
              k \in 1..Len(rs)}

\* What the reader tasks have queued when the query is called.
Queues == UNION {Responses(rs) : rs \in SeqsUpTo(Recs, MaxRecords)}

\* A Client with its IPv4 sockets, whose readers have queued the responses of
\* the network and wait for more; a call of QueryContext is about to start.
InitCorr ==
  /\ \E a \in GoodArgs : a.v4 /\ ~a.v6 /\ args = a /\ newErr = Nil
                         /\ \E q \in Queues :
                              c = [newClient(a).c EXCEPT !.MsgChan = q]
  /\ rpc = [s \in Readers |-> "read"]
  /\ rres = [s \in Readers |-> NoRes]
  /\ net = {}
  /\ budget = 0
  /\ InitClose
  /\ InitQuery(<<FullParam>>)

NextCorr == Dispatch_Next \/ Correlate_Next

\* One call of QueryContext on the responses queued.
SpecCorr == InitCorr /\ [][NextCorr]_vars

-----------------------------------------------------------------------------
(* One responder and a consumer that is always ready *)

\* The reply of the responder: the pointer to the instance, its service
\* locator, its text and the address of its host, in this order.
E2ERecs ==
  <<[type |-> "PTR", Ptr |-> InstName],
    [type |-> "SRV", Name |-> InstName, Target |-> HostName, Port |-> 8080],
    [type |-> "TXT", Name |-> InstName, Txt |-> <<"v=1">>],
    [type |-> "A", Name |-> HostName, A |-> <<10, 0, 0, 5>>]>>

\* The reply is queued as one message or as several; the consumer is ready.
InitE2E ==
  /\ \E a \in GoodArgs :
       /\ args = a /\ newErr = Nil
       /\ \E q \in Responses(E2ERecs) :
            c = [newClient(a).c EXCEPT !.MsgChan = q]
  /\ rpc = [s \in Readers |-> "read"]
  /\ rres = [s \in Readers |-> NoRes]
  /\ net = {}
  /\ budget = 0
  /\ InitClose
  /\ \E ps \in ParamLists : InitQuery(ps)
  /\ consumerReady

NextE2E ==
  \/ Dispatch_Next
  \/ TimerFire \/ QReceive \/ QFinish \/ QRecord \/ QPost \/ QEmit

\* One call of QueryContext on the reply of the responder.
SpecE2E == InitE2E /\ [][NextE2E]_vars

-----------------------------------------------------------------------------
(* IPv6 address records from two interfaces *)

\* IPv6 addresses by their first two bytes and their last: fe80::1 and
\* febf::1 (link-local unicast), fec0::1 (site-local), ff02::fb (link-local
\* multicast), ff05::fb (site-local multicast) and 2001::1 (global).
Addrs6 ==
  {LinkLocal6, <<254, 191, 1>>, <<254, 192, 1>>, <<255, 2, 251>>,
   <<255, 5, 251>>, <<32, 1, 1>>}

\* The zones of the source addresses: the interfaces the packets came in on.
Zones == {"eth0", "eth1"}

\* A response with one IPv6 address record of the host, from interface z.
Response6(ip, z) ==
  [Answer |-> <<[type |-> "AAAA", Name |-> HostName, AAAA |-> ip]>>,
   Extra |-> <<>>,
   src |-> [IP |-> LinkLocal6, Zone |-> z]]

\* The most responses with an IPv6 address record in one invocation.
MaxZoneMsgs == 2

InitZone ==
  /\ \E a \in GoodArgs :
       /\ a.v4 /\ ~a.v6 /\ args = a /\ newErr = Nil
       /\ \E q \in SeqsUpTo({Response6(ip, z) : ip \in Addrs6, z \in Zones},
                              MaxZoneMsgs) :
            c = [newClient(a).c EXCEPT !.MsgChan = q]
  /\ rpc = [s \in Readers |-> "read"]
  /\ rres = [s \in Readers |-> NoRes]
  /\ net = {}
  /\ budget = 0
  /\ InitClose
  /\ InitQuery(<<FullParam>>)
  /\ consumerReady

\* One call of QueryContext on responses with IPv6 address records.
SpecZone == InitZone /\ [][NextE2E]_vars

-----------------------------------------------------------------------------
(* Close with a shared queue that nobody drains *)

\* A queue of n responses.
Queued(n) == [i \in 1..n |-> PtrMsg]

\* A Client whose shared queue is full, or has room for one more message, on
\* a network that delivers well-formed responses; no query is running.
InitShutdown ==
  /\ \E a \in GoodArgs :
       /\ a.v4 /\ ~a.v6 /\ args = a /\ newErr = Nil
       /\ \E n \in {MsgChanCap - 1, MsgChanCap} :
            c = [newClient(a).c EXCEPT !.MsgChan = Queued(n)]
  /\ rpc = [s \in Readers |-> "start"]
  /\ rres = [s \in Readers |-> NoRes]
  /\ net = {[kind |-> "ok", msg |-> PtrMsg]}
  /\ budget = MaxDatagrams
  /\ InitClose
  /\ InitNoQuery

\* A step of reader task r, and a step of caller k inside Close.
ReaderStep(r) ==
  \/ RecvStart(r) \/ RecvLoop(r) \/ RecvRead(r) \/ RecvCheck(r)
  \/ RecvPush(r) \/ RecvShutdown(r)
CloserStep(k) == CloseCAS(k) \/ CloseClosedCh(k) \/ CloseSock(k)

\* The scheduler runs the tasks: while a reader task or a caller inside Close
\* can take a step, one of them does.
ShutdownFairness ==
  WF_vars((\E r \in Readers : ReaderStep(r)) \/ (\E k \in Closers : CloserStep(k)))

\* The reader tasks and the callers of Close on a queue nobody drains.
SpecShutdown == InitShutdown /\ [][NextClose]_vars /\ ShutdownFairness

-----------------------------------------------------------------------------
(* Claims about construction, checked under SpecNew *)

\* Protocol p has both its unicast and its multicast socket bound.
BothBound4 == args.v4 /\ {"u4", "m4"} \subseteq args.bindOK
BothBound6 == args.v6 /\ {"u6", "m6"} \subseteq args.bindOK

\* C5: when no protocol has both its unicast and its multicast socket bound,
\* newClient returns an error and has started no reader task.
C5_NoUsableProtocolFails ==
  (newErr # "pending" /\ ~BothBound4 /\ ~BothBound6)
    => (newErr # Nil /\ \A s \in Readers : rpc[s] = "none")

\* C5 witness: the unicast check and the multicast check both pass (u4 and m6
\* are bound), no protocol is usable, and construction has failed.
C5_Witness ==
  /\ newErr \notin {"pending", Nil}
  /\ args.v4 /\ args.v6
  /\ args.bindOK = {"u4", "m6"}
  /\ c.built

\* C6: in every Client newClient returns, a protocol of which a socket is not
\* bound has its use flag false and both of its socket fields nil.
C6_UsableOnlyIfBothBound ==
  c.built =>
    /\ ~BothBound4 =>
         (~c.use_ipv4 /\ c.conn["u4"] = Nil /\ c.conn["m4"] = Nil)
    /\ ~BothBound6 =>
         (~c.use_ipv6 /\ c.conn["u6"] = Nil /\ c.conn["m6"] = Nil)

-----------------------------------------------------------------------------
(* Claims about Close, checked under SpecClose *)

\* Nothing is closed twice, every call that returned returned nil, and once
\* the call that won the flag has returned, the shutdown signal and every open
\* socket have been closed exactly once.
CloseOnce ==
  /\ chCloses <= 1
  /\ \A s \in Socks : closes[s] <= 1
  /\ \A k \in Closers : kpc[k] = "done" => kret[k] = Nil
  /\ (\E k \in Closers : kpc[k] = "done" /\ kcas[k]) =>
       /\ chCloses = 1
       /\ \A s \in Socks : c.conn[s] # Nil => closes[s] = 1
       /\ \A s \in Socks : c.conn[s] = Nil => closes[s] = 0

\* C4: concurrent calls of Close, under every interleaving, return nil, close
\* the shutdown signal once and each open socket once, and the closed flag
\* never goes back from closed to open.
C4_ConcurrentClose ==
  []CloseOnce /\ [][c.closed = 1 => c'.closed = 1]_vars

\* C4 witness: every caller has returned, one of them having won the flag and
\* the others having found it set, and the four sockets are closed.
C4_Witness ==
  /\ \A k \in Closers : kpc[k] = "done"
  /\ Cardinality({k \in Closers : kcas[k]}) = 1
  /\ \A s \in Socks : c.conn[s] = "closed"

-----------------------------------------------------------------------------
(* Claims about the query call, checked under Spec and FairSpec *)

C8_CancelCloses ==
  (qpc = "done" /\ qret = Nil /\ cancelEarly) => c.closed = 1

\* C9 as claimed: when the call ends at the deadline, every open socket has
\* been closed, exactly once.
C9_ClosedAtDeadline ==
  (qpc = "done" /\ qret = Nil) =>
    \A s \in Socks : c.conn[s] # Nil => (c.conn[s] = "closed" /\ closes[s] = 1)

\* C9 amended: when the call ends at the deadline, the query has closed no
\* socket, nor the shutdown signal, nor set the closed flag.
C9_QueryClosesNothing ==
  (qpc = "done" /\ qret = Nil) =>
    /\ c.closed = 0 /\ c.closedCh = "open" /\ chCloses = 0
    /\ \A s \in Socks : c.conn[s] # "closed" /\ closes[s] = 0

\* C9 witness: the call ended at the deadline, after emitting an entry, on a
\* Client with open sockets.
C9_Witness ==
  /\ qpc = "done" /\ qret = Nil
  /\ respChan # <<>>
  /\ \E s \in Socks : c.conn[s] = "open"

\* C10: once the defaults loop has run, a configuration passed with an empty
\* Domain has Domain "local", one passed with a zero Timeout has Timeout one
\* second, and the question dispatched for a configuration passed with an empty
\* Domain is <service>.local.
C10_DefaultsApplied ==
  qpc \notin {"idle", "defaults"} =>
    \A i \in 1..Len(input) :
      /\ input[i].Domain = <<>> => params[i].Domain = <<"local">>
      /\ input[i].Timeout = 0 => params[i].Timeout = 1
      /\ (qpc \in {"u4", "u6"} /\ qi = i /\ input[i].Domain = <<>>) =>
           m.Name = trimDot(input[i].Service) \o <<".", "local", ".">>

-----------------------------------------------------------------------------
(* Claims about the correlator, checked under SpecCorr *)

\* C1: for every name, an entry with that name is offered to the output
\* channel, and received from it, at most once in an invocation.
C1_AtMostOnce ==
  /\ \A i, j \in 1..Len(offers) :
       heap[offers[i]].Name = heap[offers[j]].Name => i = j
  /\ \A i, j \in 1..Len(respChan) :
       heap[respChan[i]].Name = heap[respChan[j]].Name => i = j
  /\ Len(respChan) <= Len(offers)

\* C1 witness: a second message carried a further record for a name whose
\* entry had been emitted on the first, and the entry was emitted once.
C1_Witness ==
  /\ qpc = "select" /\ consumed = 2 /\ Len(seen) = 2
  /\ seen[1].type = "PTR" /\ seen[2].type = "TXT"
  /\ respChan = <<1>>
  /\ heap[1].Name = InstName /\ heap[1].hasTXT

\* The table after the records rs are processed in this order.
RECURSIVE Correlate(_, _)
Correlate(t, rs) ==
  IF rs = <<>> THEN t
  ELSE Correlate(ApplyRecord(t, Head(rs), Src1), Tail(rs))

EmptyTable == [inprogress |-> <<>>, heap |-> <<>>, inp |-> 0]

\* The fields of an entry that records carry.
Carried(e) ==
  [Host |-> e.Host, Port |-> e.Port, Info |-> e.Info,
   InfoFields |-> e.InfoFields, AddrV4 |-> e.AddrV4, AddrV6 |-> e.AddrV6,
   AddrV6IPAddr |-> e.AddrV6IPAddr]

\* C2: when the correlator has processed all the records received, the entry
\* each name resolves to carries the same fields as it would, had the records
\* arrived in any other order.
C2_OrderIndependent ==
  (qpc \in {"select", "done"} /\ c.MsgChan = <<>> /\ seen # <<>>) =>
    \A f \in Permutations(1..Len(seen)) :
      LET t == Correlate(EmptyTable, [i \in 1..Len(seen) |-> seen[f[i]]])
      IN  \A name \in DOMAIN inprogress :
            /\ name \in DOMAIN t.inprogress
            /\ Carried(t.heap[t.inprogress[name]])
                 = Carried(heap[inprogress[name]])

\* A service locator whose target differs from its own name.
IsAliasing(rr) == rr.type = "SRV" /\ rr.Target # rr.Name

\* The table resolves the names a and b to the identical entry.
SameEntry(a, b) ==
  /\ a \in DOMAIN inprogress
  /\ b \in DOMAIN inprogress
  /\ inprogress[a] = inprogress[b]

Repointed(i) ==
  \E j \in (i + 1)..Len(seen) :
    /\ IsAliasing(seen[j])
    /\ seen[j].Target \in {seen[i].Name, seen[i].Target}
    /\ seen[j].Name \notin {seen[i].Name, seen[i].Target}

-----------------------------------------------------------------------------
(* Claims about the dispatch, checked under Spec *)

\* A step of sendQuery in which the write to a socket that is not nil fails:
\* the call moves on and nothing was written.
WriteFails ==
  /\ qpc \in {"u4", "u6"}
  /\ c.conn[qpc] # Nil
  /\ qpc' # qpc
  /\ wrote' = wrote

\* C11: a failed write to a unicast socket makes the query call return that
\* error at once; after it no socket is written, no further query
\* configuration is dispatched, no message is consumed and no entry emitted.
C11_WriteFailureAborts ==
  /\ [][WriteFails => (qpc' = "done" /\ qret' = "write error" /\ qi' = qi)]_vars
  /\ [](qret = "write error" =>
          (qpc = "done" /\ consumed = 0 /\ offers = <<>> /\ respChan = <<>>))
  /\ [][qret = "write error" =>
          UNCHANGED <<qret, qpc, qi, wrote, consumed, offers, respChan>>]_vars

\* C11 witness: the write to the IPv6 socket failed after the write to the
\* IPv4 socket, with a query configuration still to dispatch and a message
\* waiting in the queue.
C11_Witness ==
  /\ qret = "write error" /\ qpc = "done"
  /\ Len(wrote) = 1 /\ wrote[1].sock = "u4"
  /\ qi < Len(params)
  /\ c.MsgChan # <<>>

\* The open unicast sockets, in the order sendQuery writes them.
OpenUnicast == SelectSeq(<<"u4", "u6">>, LAMBDA s : c.conn[s] = "open")

\* The writes of a dispatch of the query configurations ps that succeeds.
RECURSIVE Dispatched(_)
Dispatched(ps) ==
  IF ps = <<>> THEN <<>>
  ELSE [i \in 1..Len(OpenUnicast) |->
          [sock |-> OpenUnicast[i], q |-> Question(Head(ps))]]
       \o Dispatched(Tail(ps))

\* C19: once the dispatch has succeeded, the queries written are exactly one
\* per query configuration and open unicast socket, and they stay so: every
\* write precedes the first message the correlator consumes, and correlation
\* writes no query.
C19_DispatchThenCorrelate ==
  /\ finish # "unarmed" => wrote = Dispatched(params)
  /\ consumed > 0 => finish # "unarmed"

\* C19 witness: a call with two query configurations on a Client with both
\* unicast sockets wrote four queries, consumed a message and returned.
C19_Witness ==
  /\ qpc = "done" /\ qret = Nil
  /\ consumed >= 1 /\ offers # <<>>
  /\ Len(params) = 2 /\ Len(wrote) = 4

-----------------------------------------------------------------------------
(* Claims about one reply end to end, checked under SpecE2E *)

\* The entry the reply describes.
E2EEntry(e) ==
  /\ e.Name = InstName /\ e.Host = HostName /\ e.Port = 8080
  /\ e.Info = "v=1" /\ e.AddrV4 = <<10, 0, 0, 5>>

\* The correlator has processed the four records and waits or has returned.
E2EProcessed == Len(seen) = 4 /\ qpc \in {"select", "done"}

\* C12 as claimed: exactly one entry is emitted, and the entry the consumer
\* is handed has the name, host, port, info and address of the reply, in one
\* message or in several.
C12_EmittedComplete ==
  /\ [](E2EProcessed => Len(respChan) = 1)
  /\ [][Len(respChan') > Len(respChan) => E2EEntry(heap[inp])]_vars

\* C12 amended: at most one entry is ever emitted and exactly one once the
\* four records are processed; it then has the name, host, port, info and
\* address of the reply; when it is handed to the consumer it has them only
\* if the four records came in one message, otherwise the correlator fills it
\* in place afterwards.
C12_EmittedOnceFilledInPlace ==
  /\ [](Len(respChan) <= 1)
  /\ [](E2EProcessed => (Len(respChan) = 1 /\ E2EEntry(heap[respChan[1]])))
  /\ [][Len(respChan') > Len(respChan) =>
          (E2EEntry(heap[inp]) <=> Len(Records(resp)) = 4)]_vars

\* C12 witness: the four records came in four messages, one entry was emitted
\* and it has all the fields at the end.
C12_Witness ==
  /\ consumed = 4 /\ E2EProcessed /\ qpc = "done"
  /\ respChan = <<1>> /\ E2EEntry(heap[1])

-----------------------------------------------------------------------------
(* Claims about the zone of IPv6 addresses, checked under SpecZone *)

\* fe80::/10 and ff02::/16, by the bytes of the address.
LinkLocalAddr(ip) ==
  \/ ip[1] = 254 /\ ip[2] \in 128..191
  \/ ip[1] = 255 /\ ip[2] \in {2 + 16 * k : k \in 0..15}

\* A step in which the correlator processes an IPv6 address record.
AtAAAA ==
  /\ qpc = "records"
  /\ ri <= Len(Records(resp))
  /\ Records(resp)[ri].type = "AAAA"
  /\ ri' = ri + 1

\* C13: after an IPv6 address record is processed, the IPv6 address of its
\* entry is the address of the record, with the zone of the source address of
\* the packet if the address is link-local and with no zone if it is not,
\* whatever zone the entry had before.
C13_ZoneOfLinkLocal ==
  [][AtAAAA =>
       LET rr == Records(resp)[ri]
       IN  heap'[inp'].AddrV6IPAddr =
             [IP |-> rr.AAAA,
              Zone |-> IF LinkLocalAddr(rr.AAAA) THEN resp.src.Zone ELSE "",
              isNil |-> FALSE]]_vars

\* C13 witness: a link-local record from eth0 gave the entry the zone eth0,
\* and a later record with an address that is not link-local left it with no
\* zone.
C13_Witness ==
  /\ Len(seen) = 2 /\ consumed = 2
  /\ LinkLocalAddr(seen[1].AAAA) /\ ~LinkLocalAddr(seen[2].AAAA)
  /\ heap[inprogress[HostName]].AddrV6IPAddr.IP = seen[2].AAAA
  /\ heap[inprogress[HostName]].AddrV6IPAddr.Zone = ""
  /\ offers = <<1>>

-----------------------------------------------------------------------------
(* Claims about the reader tasks and Close, checked under SpecClose *)

\* C14 as claimed: once Close has set the closed flag, no reader task pushes
\* a message onto the shared queue.
C14_NoPushAfterClose ==
  [][c.closed = 1 => Len(c'.MsgChan) <= Len(c.MsgChan)]_vars

\* C14 amended: once Close has set the closed flag, no reader task gets past
\* its closed check to the push; the only pushes left are of readers that had
\* passed the check before the flag was set, one each.
C14_NoNewPushAfterClose ==
  [][c.closed = 1 =>
       /\ \A r \in Readers : rpc'[r] = "push" => rpc[r] = "push"
       /\ Len(c'.MsgChan) > Len(c.MsgChan) =>
            \E r \in Readers : rpc[r] = "push" /\ rpc'[r] = "loop"]_vars

\* C14 witness: Close has set the flag and closed the shutdown signal while a
\* reader that has passed its check holds a message and the queue has room.
C14_Witness ==
  /\ c.closed = 1 /\ c.closedCh = "closed"
  /\ rpc["u4"] = "push" /\ rres["u4"].kind = "ok"
  /\ Len(c.MsgChan) < MsgChanCap

-----------------------------------------------------------------------------
(* Claims about the reader tasks newClient starts, checked under SpecNew *)

\* C15: after a successful construction, a reader task has been started for
\* every socket of the Client that is not nil.
C15_ReaderPerSocket ==
  (newErr = Nil /\ c.built) =>
    \A s \in Socks :
      c.conn[s] # Nil => (s \in DOMAIN rpc /\ rpc[s] # "none")

-----------------------------------------------------------------------------
(* Claims about the end of the reader tasks, checked under SpecShutdown *)

\* C16: after Close has set the closed flag, every reader task eventually
\* terminates, also one that is blocked in a read or blocked pushing to a
\* full queue nobody drains.
C16_ReadersTerminate ==
  (c.closed = 1) ~> (\A r \in Readers : rpc[r] = "done")

\* C16 witness: the shutdown signal is closed while one reader is blocked
\* pushing to the full queue and the other is blocked in a read on a socket
\* that is still open.
C16_Witness ==
  /\ c.closedCh = "closed"
  /\ rpc["u4"] = "push" /\ Len(c.MsgChan) = MsgChanCap
  /\ rpc["m4"] = "read" /\ c.conn["m4"] = "open" /\ budget = 0

-----------------------------------------------------------------------------
(* Claims about the sent mark, checked under SpecCorr *)

\* The correlator has finished a message and waits for the next.
Waiting == qpc = "select" /\ consumed >= 1

\* The entry the k-th record processed touched, and whether that record
\* created it.
TouchedBy(k) == Correlate(EmptyTable, SubSeq(seen, 1, k)).inp
CreatedBy(k) ==
  Len(Correlate(EmptyTable, SubSeq(seen, 1, k)).heap)
    > Len(Correlate(EmptyTable, SubSeq(seen, 1, k - 1)).heap)

\* C17: when the correlator has finished a message, every entry that a record
\* of the message created or updated is marked sent, also when the message
\* has records for several names.
C17_EveryTouchedEntrySent ==
  Waiting =>
    \A k \in (Len(seen) - Len(Records(resp)) + 1)..Len(seen) :
      (seen[k].type # "PTR" \/ CreatedBy(k)) => heap[TouchedBy(k)].sent

\* The names that resolve to an entry marked sent.
SentNames == {n \in DOMAIN inprogress : heap[inprogress[n]].sent}

\* C18: no name leaves the in-progress table, and a name that resolved to a
\* sent entry before a message resolves to a sent entry after it.
C18_SentIsTerminal ==
  /\ sentNames \subseteq DOMAIN inprogress
  /\ Waiting => sentNames \subseteq SentNames

\* An entry whose emit was dropped: it was offered, the send is over, and the
\* consumer did not get it.
Dropped(id) ==
  /\ \E i \in 1..Len(offers) : offers[i] = id
  /\ ~(qpc = "emit" /\ inp = id)
  /\ \A i \in 1..Len(respChan) : respChan[i] # id

\* C20: an entry whose emit was dropped stays marked sent, is not offered
\* again and is not delivered, whatever records come later and whether or not
\* the consumer is ready then.
C20_DroppedStaysDropped ==
  [][\A id \in 1..Len(heap) :
       Dropped(id) =>
         /\ heap'[id].sent
         /\ offers' = offers \/ offers'[Len(offers')] # id
         /\ \A i \in 1..Len(respChan') : respChan'[i] # id]_vars

\* C20 witness: the emit of the instance's entry was dropped, a second
\* message with a record for the same name was processed, and the correlator
\* finds the entry sent while the consumer is ready.
C20_Witness ==
  /\ qpc = "post" /\ consumed = 2 /\ consumerReady
  /\ inp = 1 /\ Dropped(1)
  /\ heap[1].Name = InstName /\ heap[1].sent

====
